---- MODULE Spec2Model ----
(***************************************************************************)
(* A model of unimib_scraper/cli.py: the content-tree walk (scrape_course, *)
(* download_resources, save_kaltura_video_url), the semaphore-gated        *)
(* WorkerPool around multiprocessing.pool.ThreadPool, and _do_download.    *)
(*                                                                         *)
(* Conventions.  A Python str is a sequence of one-character strings       *)
(* (<<"C","O","N">> is "CON"); a dict node of the Moodle tree is a record  *)
(* whose field `keys` is the set of keys the dict holds; sizes are counted *)
(* in chunks of the response body (iter_content yields one chunk a step).  *)
(***************************************************************************)
EXTENDS Integers, Sequences, FiniteSets, TLC

(* ------------------------------ bounds -------------------------------- *)

\* the largest --transfers value (pool capacity N) the runs are started with
MaxTransfers == 2

\* the longest response body, in chunks
MaxBody == 2

\* the longest name escape_path is tried on, in characters
MaxName == 3

\* how many times in a row escape_path is applied to a path
MaxApply == 2

(* ------------------------- module constants --------------------------- *)

IGNORED_MODULES ==
    { "assign", "choice", "choicegroup", "feedback", "forum", "label",
      "quiz", "page", "customcert", "scorm" }

WIN_FORBIDDEN_FILENAMES ==
    { <<"C","O","N">>, <<"P","R","N">>, <<"A","U","X">>, <<"N","U","L">> }
    \cup { <<"C","O","M",d>> : d \in {"0","1","2","3","4","5","6","7","8","9"} }
    \cup { <<"L","P","T",d>> : d \in {"0","1","2","3","4","5","6","7","8","9"} }

\* the look-alike characters are written by their code points
WIN_FORBIDDEN_FILENAME_CHARMAP ==
    << <<"\\", "U+2216">>, <<":", "U+2236">>, <<"*", "U+2217">>,
       <<"?", "U+FF1F">>, <<"\"", "U+FF02">>, <<"<", "U+FF1C">>,
       <<">", "U+FF1E">>, <<"|", "U+2223">> >>

(* --------------------------- PathEscaper ------------------------------ *)

\* str.replace(char, replacement) for a one-character pattern
replace(name, char, replacement) ==
    [i \in 1..Len(name) |-> IF name[i] = char THEN replacement ELSE name[i]]

RECURSIVE replace_all(_, _)
replace_all(name, charmap) ==
    IF charmap = <<>> THEN name
    ELSE replace_all(replace(name, Head(charmap)[1], Head(charmap)[2]),
                     Tail(charmap))

\* escape_path_name with the "_" prefix put before every name on win32
escape_path_name_AlwaysPrefix(name, platform) ==
    LET n1 == replace(name, "/", "U+2044")
    IN  IF platform = "win32"
        THEN replace_all(<<"_">> \o n1, WIN_FORBIDDEN_FILENAME_CHARMAP)
        ELSE n1

escape_path_name(name, platform) ==
    LET n1 == replace(name, "/", "U+2044")
    IN  IF platform = "win32"
        THEN LET n2 == IF n1 \in WIN_FORBIDDEN_FILENAMES
                       THEN <<"_">> \o n1 ELSE n1
             IN  replace_all(n2, WIN_FORBIDDEN_FILENAME_CHARMAP)
        ELSE n1

escape_path(path, platform) ==
    [i \in 1..Len(path) |-> escape_path_name(path[i], platform)]

\* str(Path(os.path.join(destdir, *escaped_path))): the segments under the
\* fixed destdir; an empty segment adds no level
NonEmpty(seg) == seg # <<>>
JoinPath(escaped_path) == SelectSeq(escaped_path, NonEmpty)

(* ----------------------------- the tree ------------------------------- *)

\* a FileEntry of module["contents"]
Content(type, filename, fileurl, filesize) ==
    [type |-> type, filename |-> filename, fileurl |-> fileurl,
     filesize |-> filesize]

\* a section: a dict with "modules"
Section(id, name, modules) ==
    [keys |-> {"id", "name", "modules"}, id |-> id, name |-> name,
     modules |-> modules, modname |-> "", contents |-> <<>>, url |-> ""]

\* a module dict; `keys` says whether "contents" is present
Module(id, name, modname, keys, contents, url) ==
    [keys |-> {"id", "name", "modname"} \cup keys, id |-> id, name |-> name,
     modules |-> <<>>, modname |-> modname, contents |-> contents,
     url |-> url]

(* --------------------------- TreeWalker ------------------------------- *)

\* the path scrape_course hands to the children of a dict node
\* (the conditional expression spans the whole first argument)
ChildPath(path, data) ==
    IF data.id # -1 /\ data.name # <<>> THEN path \o <<data.name>> ELSE <<>>

\* the enclosing dict of a call, kept with each call for reference
Via(path, data) ==
    [nested |-> TRUE, path |-> path, id |-> data.id, name |-> data.name]

TopLevel == [nested |-> FALSE, path |-> <<>>, id |-> 0, name |-> <<>>]

\* scrape_course: the calls that reach the module dispatch, in the order
\* the recursion makes them.  scrape_course_list is the list branch,
\* scrape_course the dict branch (children first, then the node itself).
RECURSIVE scrape_course_list(_, _, _)
RECURSIVE scrape_course(_, _, _)
scrape_course_list(path, data, via) ==
    IF data = <<>> THEN <<>>
    ELSE scrape_course(path, Head(data), via)
         \o scrape_course_list(path, Tail(data), via)

scrape_course(path, data, via) ==
    LET below == IF "modules" \in data.keys
                 THEN scrape_course_list(ChildPath(path, data), data.modules,
                                         Via(path, data))
                 ELSE <<>>
        here  == IF "modname" \in data.keys
                    /\ data.modname \notin IGNORED_MODULES
                 THEN << [path |-> path, data |-> data, via |-> via] >>
                 ELSE <<>>
    IN  below \o here

\* Scraper.scrape: one scrape_course per enrolled course, path being the
\* category names followed by the course's full name
RECURSIVE scrape(_)
scrape(courses) ==
    IF courses = <<>> THEN <<>>
    ELSE scrape_course_list(Head(courses).path, Head(courses).content, TopLevel)
         \o scrape(Tail(courses))

\* download_resources: the path of a module's files
ResourcePath(path, module) ==
    IF Len(module.contents) > 1 THEN path \o <<module.name>> ELSE path

\* the destination of one content entry, as str(file)
FileOf(path, filename, platform) ==
    JoinPath(escape_path(path \o <<filename>>, platform))

\* save_kaltura_video_url: the destination the VideoURLMap is keyed by
VideoFileOf(path, module, platform) ==
    JoinPath(escape_path(path \o <<module.name \o <<".mp4">> >>, platform))

\* Urls.VIDEO.format(entry_id=entry_id)
VideoUrl(entry_id) == <<"VIDEO", entry_id>>

(* ----------------------------- inputs --------------------------------- *)

\* the body the server streams for a file URL, as a number of chunks
BodyLen(url) == IF url = "u2" THEN MaxBody ELSE 1

\* the entry ids a video page's player source may carry
EntryIds == {"e1", "e2"}

\* what fetching and parsing a video page can come to
FetchOutcomes ==
    { [kind |-> "HTTPError",  entry |-> ""],
      [kind |-> "TypeError",  entry |-> ""],
      [kind |-> "KeyError",   entry |-> ""],
      [kind |-> "no_entryid", entry |-> ""] }
    \cup { [kind |-> "entry", entry |-> e] : e \in EntryIds }

nA == <<"a">>
nB == <<"b">>
nK == <<"K">>
nS == <<"S">>
nR == <<"R">>
nQ == <<"Q">>
nV == <<"V", "/", "1">>
nCat == <<"C", "O", "N">>

\* a course whose one section holds a three-file resource module; the
\* first and the last file have the same name, and the last one's filesize
\* in the listing is not the length its server declares
CoursePool ==
    [path |-> <<nK>>,
     content |-> <<
        Section(1, nS, <<
            Module(10, nR, "resource", {"contents"},
                   << Content("file", nA, "u1", 1),
                      Content("file", nB, "u2", MaxBody),
                      Content("file", nA, "u3", 2) >>, "") >>) >>]

\* a course under a category: a synthetic container (id -1) with videos,
\* an ignored module, a one-file resource with a non-file entry and an
\* unknown module, then an unnamed section
CourseMixed ==
    [path |-> <<nCat, nK>>,
     content |-> <<
        Section(-1, nS, <<
            Module(20, nV, "kalvidres", {}, <<>>, "p1"),
            Module(21, nQ, "forum", {}, <<>>, ""),
            Module(22, nQ, "resource", {"contents"},
                   << Content("file", nA, "u1", 1),
                      Content("url", nB, "u9", 0) >>, ""),
            Module(23, nV, "kalvidres", {}, <<>>, "p1"),
            Module(24, nQ, "book", {}, <<>>, "") >>),
        Section(2, <<>>, <<
            Module(30, nR, "resource", {}, <<>>, ""),
            Module(31, nR, "resource", {"contents"},
                   << Content("file", nB, "u2", MaxBody) >>, "") >>) >>]

CourseLists == { <<CoursePool>>, <<CourseMixed>> }

(* ------------------------------ state --------------------------------- *)

VARIABLES
    platform,          \* sys.platform
    credentials,       \* whether main finds a username and a password
    esc_in,            \* the argument escape_path is applied to
    esc_out,           \* the results of the successive escape_path calls
    transfers,         \* --transfers, the capacity N of the pool
    courses,           \* what core_enrol_get_users_courses and
                       \* core_course_get_contents return
    calls,             \* the module calls of the walk, in order
    ip,                \* the call the control thread is at
    ci,                \* the content entry download_resources is at
    pc,                \* where the control thread is
    exc,               \* the exception propagating in the control thread
    semaphore,         \* WorkerPool.semaphore
    pool_state,        \* ThreadPool state: RUN, CLOSE or TERMINATE
    taskqueue,         \* units handed to apply_async, not yet started
    outqueue,          \* results waiting for the result-handler thread
    tasks,             \* every unit submitted, by number
    files,             \* the directory: destination |-> inode
    inodes,            \* inode |-> the chunks the file holds
    videos,            \* Scraper.videos
    videos_json,       \* the file at Scraper.videos_json
    before,            \* the entries videos_json held when the update began
    fetches,           \* the destinations whose video page was fetched
    downloaded_bytes,  \* Scraper._downloaded_bytes
    shown              \* the bytes the status bar has shown, over all ticks

vars == << platform, credentials, esc_in, esc_out, transfers, courses,
           calls, ip, ci, pc, exc, semaphore,
           pool_state, taskqueue, outqueue, tasks, files, inodes, videos,
           videos_json, before, fetches, downloaded_bytes, shown >>

\* what no step of a run changes: the inputs of the run, and the
\* variables of the PathEscaper specification
input_vars == << platform, credentials, esc_in, esc_out, transfers,
                 courses >>
walk_vars  == << calls, ip, ci >>
pool_vars  == << semaphore, pool_state, taskqueue, outqueue, tasks >>
disk_vars  == << files, inodes >>
video_vars == << videos, videos_json, before, fetches >>
meter_vars == << downloaded_bytes, shown >>

(* ----------------------------- helpers -------------------------------- *)

Cur == calls[ip]
CurContent == Cur.data.contents[ci]
CurFile == FileOf(ResourcePath(Cur.path, Cur.data), CurContent.filename,
                  platform)
CurVideoFile == VideoFileOf(Cur.path, Cur.data, platform)

Exists(file) == file \in DOMAIN files
SizeOf(file) == Len(inodes[files[file]])

Put(map, key, value) == (key :> value) @@ map
Remove(map, key) == [k \in DOMAIN map \ {key} |-> map[k]]
EmptyMap == [k \in {} |-> <<>>]

\* a write of one chunk at position pos of a file
WriteAt(data, pos, chunk) ==
    [i \in 1..(IF pos > Len(data) THEN pos ELSE Len(data)) |->
        IF i = pos THEN chunk
        ELSE IF i <= Len(data) THEN data[i] ELSE <<"hole", i>>]

RunningPcs == {"get", "write", "notify"}
Running == {t \in DOMAIN tasks : tasks[t].pc \in RunningPcs}
InFlight == {t \in DOMAIN tasks :
                tasks[t].pc \in RunningPcs \cup {"queued", "abandoned"}}

\* the destination of the first file entry of the walk, if any
RECURSIVE FirstFile(_, _, _)
FirstFile(cs, i, plat) ==
    IF cs = <<>> THEN <<>>
    ELSE LET c == Head(cs) IN
         IF c.data.modname = "resource" /\ i <= Len(c.data.contents)
         THEN IF c.data.contents[i].type = "file"
              THEN FileOf(ResourcePath(c.path, c.data),
                          c.data.contents[i].filename, plat)
              ELSE FirstFile(cs, i + 1, plat)
         ELSE FirstFile(Tail(cs), 1, plat)

RECURSIVE FirstVideo(_, _)
FirstVideo(cs, plat) ==
    IF cs = <<>> THEN <<>>
    ELSE IF Head(cs).data.modname = "kalvidres"
         THEN VideoFileOf(Head(cs).path, Head(cs).data, plat)
         ELSE FirstVideo(Tail(cs), plat)

OtherVideo == << <<"o", ".mp4">> >>

\* the files found in destdir when the run starts: none, or the first
\* file of the walk with some size
StartDisks(cs, plat) ==
    LET f == FirstFile(cs, 1, plat) IN
    { [files |-> EmptyMap, inodes |-> EmptyMap] }
    \cup (IF f = <<>> THEN {}
          ELSE { [files |-> (f :> 0),
                  inodes |-> (0 :> [i \in 1..n |-> <<"old", i>>])]
                 : n \in 0..1 })

\* what videos.json holds when the run starts
StartMaps(cs, plat) ==
    LET v == FirstVideo(cs, plat) IN
    { [state |-> "absent", entries |-> EmptyMap] }
    \cup (IF v = <<>> THEN {}
          ELSE { [state |-> "complete",
                  entries |-> (OtherVideo :> VideoUrl("e1"))],
                 [state |-> "complete",
                  entries |-> (OtherVideo :> VideoUrl("e1"))
                              @@ (v :> VideoUrl("e1"))] })

(* ------------------------------- Init --------------------------------- *)

\* the runs: a Linux run of CoursePool over each starting directory, and a
\* Windows run of CourseMixed over each starting videos.json
Scenarios ==
    { [platform |-> "linux", courses |-> <<CoursePool>>, disk |-> d,
       map |-> [state |-> "absent", entries |-> EmptyMap]]
      : d \in StartDisks(scrape(<<CoursePool>>), "linux") }
    \cup
    { [platform |-> "win32", courses |-> <<CourseMixed>>,
       disk |-> [files |-> EmptyMap, inodes |-> EmptyMap], map |-> m]
      : m \in StartMaps(scrape(<<CourseMixed>>), "win32") }

\* the state when main starts; the pool, the disk and the VideoURLMap are
\* as Scraper.__init__ and __enter__ will find and set them
Init ==
    /\ credentials \in {"given", "missing"}
    /\ esc_in = <<>>
    /\ esc_out = <<>>
    /\ \E s \in Scenarios :
          /\ platform = s.platform
          /\ courses = s.courses
          /\ files = s.disk.files
          /\ inodes = s.disk.inodes
          /\ videos_json = s.map
    /\ transfers \in 1..MaxTransfers
    /\ calls = <<>>
    /\ ip = 1
    /\ ci = 1
    /\ pc = "main"
    /\ exc = "none"
    /\ semaphore = transfers
    /\ pool_state = "RUN"
    /\ taskqueue = <<>>
    /\ outqueue = <<>>
    /\ tasks = <<>>
    /\ videos = videos_json.entries
    /\ before = videos_json.entries
    /\ fetches = <<>>
    /\ downloaded_bytes = 0
    /\ shown = 0

(* ------------------------- the control thread ------------------------- *)

NextCall ==
    /\ ip' = ip + 1
    /\ ci' = 1
    /\ pc' = "walk"

\* main, up to scraper.scrape(): with no username or password it prints a
\* message and returns; otherwise it logs in and builds the Scraper
Main ==
    /\ pc = "main"
    /\ pc' = IF credentials = "missing" THEN "returned" ELSE "scrape"
    /\ UNCHANGED << input_vars, walk_vars, exc, pool_vars, disk_vars,
                    video_vars, meter_vars >>

\* Scraper.scrape: the trees are fetched and the walk begins
Scrape ==
    /\ pc = "scrape"
    /\ calls' = scrape(courses)
    /\ ip' = 1
    /\ ci' = 1
    /\ pc' = "walk"
    /\ UNCHANGED << input_vars, exc, pool_vars, disk_vars, video_vars,
                    meter_vars >>

\* scrape_course, case modname: an unknown module is printed and passed
UnknownModule ==
    /\ pc = "walk"
    /\ ip <= Len(calls)
    /\ Cur.data.modname \notin {"resource", "kalvidres"}
    /\ NextCall
    /\ UNCHANGED << input_vars, calls, exc, pool_vars, disk_vars, video_vars,
                    meter_vars >>

\* download_resources, up to the loop over module["contents"]
DownloadResources ==
    /\ pc = "walk"
    /\ ip <= Len(calls)
    /\ Cur.data.modname = "resource"
    /\ IF "contents" \notin Cur.data.keys
       THEN NextCall
       ELSE /\ pc' = "resource"
            /\ ci' = 1
            /\ ip' = ip
    /\ UNCHANGED << input_vars, calls, exc, pool_vars, disk_vars, video_vars,
                    meter_vars >>

\* one turn of the loop, up to the call of WorkerPool.submit
ResourceContent ==
    /\ pc = "resource"
    /\ IF ci > Len(Cur.data.contents)
       THEN NextCall
       ELSE /\ ip' = ip
            /\ IF CurContent.type # "file"
               THEN ci' = ci + 1 /\ pc' = pc
               ELSE IF Exists(CurFile)
                       /\ SizeOf(CurFile) = CurContent.filesize
                    THEN ci' = ci + 1 /\ pc' = pc
                    ELSE ci' = ci /\ pc' = "submit"
    /\ UNCHANGED << input_vars, calls, exc, pool_vars, disk_vars, video_vars,
                    meter_vars >>

NewTask(file, url) ==
    [file |-> file, url |-> url, pc |-> "queued", length |-> 0, ino |-> 0,
     off |-> 0, reads |-> 0, tmp |-> 0, result |-> "none"]

\* WorkerPool.submit without the admission gate
Submit_NoAcquire ==
    /\ pc = "submit"
    /\ tasks' = Append(tasks, NewTask(CurFile, CurContent.fileurl))
    /\ taskqueue' = Append(taskqueue, Len(tasks) + 1)
    /\ ci' = ci + 1
    /\ pc' = "resource"
    /\ UNCHANGED << input_vars, calls, ip, exc, semaphore, pool_state,
                    outqueue, disk_vars, video_vars, meter_vars >>

\* WorkerPool.submit: semaphore.acquire() blocks at 0, then apply_async
Submit ==
    /\ pc = "submit"
    /\ semaphore > 0
    /\ semaphore' = semaphore - 1
    /\ tasks' = Append(tasks, NewTask(CurFile, CurContent.fileurl))
    /\ taskqueue' = Append(taskqueue, Len(tasks) + 1)
    /\ ci' = ci + 1
    /\ pc' = "resource"
    /\ UNCHANGED << input_vars, calls, ip, exc, pool_state, outqueue,
                    disk_vars, video_vars, meter_vars >>

\* save_kaltura_video_url entered with the cache test left out
SaveKalturaVideoUrl_NoCache ==
    /\ pc = "walk"
    /\ ip <= Len(calls)
    /\ Cur.data.modname = "kalvidres"
    /\ pc' = "video_fetch"
    /\ UNCHANGED << input_vars, walk_vars, exc, pool_vars, disk_vars,
                    video_vars, meter_vars >>

\* save_kaltura_video_url, up to the page fetch: a destination already in
\* self.videos returns at once
SaveKalturaVideoUrl ==
    /\ pc = "walk"
    /\ ip <= Len(calls)
    /\ Cur.data.modname = "kalvidres"
    /\ IF CurVideoFile \in DOMAIN videos
       THEN NextCall
       ELSE /\ pc' = "video_fetch"
            /\ UNCHANGED << ip, ci >>
    /\ UNCHANGED << input_vars, calls, exc, pool_vars, disk_vars, video_vars,
                    meter_vars >>

\* self.videos[str(file)] = video_url, with every other entry dropped
StoreVideo_Replace(map, file, video_url) == (file :> video_url)

\* self.videos[str(file)] = video_url
StoreVideo(map, file, video_url) == Put(map, file, video_url)

\* the page fetch and its parsing, up to the store in self.videos
VideoFetch ==
    /\ pc = "video_fetch"
    /\ fetches' = Append(fetches, CurVideoFile)
    /\ \E o \in FetchOutcomes :
          CASE o.kind = "entry" ->
                 /\ videos' = StoreVideo(videos, CurVideoFile,
                                         VideoUrl(o.entry))
                 /\ before' = videos_json.entries
                 /\ pc' = "video_open"
                 /\ UNCHANGED << ip, ci, exc >>
            [] o.kind = "no_entryid" ->
                 /\ NextCall
                 /\ UNCHANGED << videos, before, exc >>
            [] OTHER ->
                 /\ exc' = o.kind
                 /\ pc' = "exc"
                 /\ ip' = 1
                 /\ ci' = 1
                 /\ UNCHANGED << videos, before >>
    /\ UNCHANGED << input_vars, calls, pool_vars, disk_vars, videos_json,
                    meter_vars >>

\* open(self.videos_json, "w") truncates the file
VideoOpen ==
    /\ pc = "video_open"
    /\ videos_json' = [state |-> "truncated", entries |-> EmptyMap]
    /\ pc' = "video_dump"
    /\ UNCHANGED << input_vars, walk_vars, exc, pool_vars, disk_vars, videos,
                    before, fetches, meter_vars >>

\* the file closed with json.dump(self.videos, f) left out
VideoDump_NoWrite ==
    /\ pc = "video_dump"
    /\ NextCall
    /\ UNCHANGED << input_vars, calls, exc, pool_vars, disk_vars, video_vars,
                    meter_vars >>

\* json.dump(self.videos, f) and the close of the file
VideoDump ==
    /\ pc = "video_dump"
    /\ videos_json' = [state |-> "complete", entries |-> videos]
    /\ NextCall
    /\ UNCHANGED << input_vars, calls, exc, pool_vars, disk_vars, videos,
                    before, fetches, meter_vars >>

\* a KeyboardInterrupt delivered to the control thread during the walk;
\* the frames of the walk unwind, so its position is forgotten
Interrupt ==
    /\ pc \in {"walk", "resource", "submit", "video_fetch", "video_open",
               "video_dump"}
    /\ exc' = "KeyboardInterrupt"
    /\ pc' = "exc"
    /\ ip' = 1
    /\ ci' = 1
    /\ UNCHANGED << input_vars, calls, pool_vars, disk_vars, video_vars,
                    meter_vars >>

\* scrape returns and WorkerPool.__exit__ runs with no exception:
\* pool.close()
PoolClose ==
    /\ pc = "walk"
    /\ ip > Len(calls)
    /\ pool_state' = "CLOSE"
    /\ pc' = "join"
    /\ UNCHANGED << input_vars, walk_vars, exc, semaphore, taskqueue,
                    outqueue, tasks, disk_vars, video_vars, meter_vars >>

\* WorkerPool.__exit__ with an exception calling pool.close() in place of
\* pool.terminate()
PoolTerminate_AsClose ==
    /\ pc = "exc"
    /\ pool_state' = "CLOSE"
    /\ pc' = "join"
    /\ UNCHANGED << input_vars, walk_vars, exc, semaphore, taskqueue,
                    outqueue, tasks, disk_vars, video_vars, meter_vars >>

\* WorkerPool.__exit__ with an exception: pool.terminate() drops the units
\* that have not started
PoolTerminate ==
    /\ pc = "exc"
    /\ pool_state' = "TERMINATE"
    /\ taskqueue' = <<>>
    /\ tasks' = [t \in DOMAIN tasks |->
                    IF tasks[t].pc = "queued"
                    THEN [tasks[t] EXCEPT !.pc = "abandoned"]
                    ELSE tasks[t]]
    /\ pc' = "join"
    /\ UNCHANGED << input_vars, walk_vars, exc, semaphore, outqueue,
                    disk_vars, video_vars, meter_vars >>

\* WorkerPool.__exit__ with pool.join() left out
PoolJoin_NoWait ==
    /\ pc = "join"
    /\ pc' = IF exc = "none" THEN "done" ELSE "failed"
    /\ UNCHANGED << input_vars, walk_vars, exc, pool_vars, disk_vars,
                    video_vars, meter_vars >>

\* pool.join(): after close it returns when every unit is done and its
\* result handled, after terminate when no worker is running a unit
PoolJoin ==
    /\ pc = "join"
    /\ Running = {}
    /\ pool_state = "CLOSE" => (taskqueue = <<>> /\ outqueue = <<>>)
    /\ pc' = IF exc = "none" THEN "done" ELSE "failed"
    /\ UNCHANGED << input_vars, walk_vars, exc, pool_vars, disk_vars,
                    video_vars, meter_vars >>

(* ------------------------- the worker threads ------------------------- *)

\* an inode lives while a name links to it or a unit has it open; inodes
\* are numbered by the unit that created them (0: there before the run)
Live(fs, ts) ==
    { fs[f] : f \in DOMAIN fs }
    \cup { ts[t].ino : t \in {u \in DOMAIN ts : ts[u].pc \in {"write", "notify"}} }

Kept(ins, fs, ts) == [i \in DOMAIN ins \cap Live(fs, ts) |-> ins[i]]

\* a free worker thread takes the oldest unit from the queue
StartTask ==
    /\ taskqueue # <<>>
    /\ pool_state # "TERMINATE"
    /\ Cardinality(Running) < transfers
    /\ tasks' = [tasks EXCEPT ![Head(taskqueue)].pc = "get"]
    /\ taskqueue' = Tail(taskqueue)
    /\ UNCHANGED << input_vars, walk_vars, pc, exc, semaphore, pool_state,
                    outqueue, disk_vars, video_vars, meter_vars >>

\* file.unlink(missing_ok=True) left out
Unlink_Skipped(fs, file) == fs

\* file.unlink(missing_ok=True)
Unlink(fs, file) == Remove(fs, file)

\* the except clause of _do_download: the destination is unlinked and the
\* exception raised again; the worker hands the failure to the result
\* handler
Except(t, reads) ==
    /\ files' = Unlink(files, tasks[t].file)
    /\ tasks' = [tasks EXCEPT ![t].pc = "raised", ![t].result = "failed",
                              ![t].reads = reads, ![t].tmp = 0,
                              ![t].length = 0]
    /\ inodes' = Kept(inodes, files', tasks')
    /\ outqueue' = Append(outqueue, t)

\* the size test of _do_download with the comparison left out
AlreadyDownloaded_Never(file, length) == FALSE

\* file.exists() and file.stat().st_size == length
AlreadyDownloaded(file, length) == Exists(file) /\ SizeOf(file) = length

\* _do_download up to the loop: browser.get(url, stream=True) raises, or
\* answers with a declared Content-Length (0 when the header is absent);
\* then a file of that length is skipped, and any other is opened with
\* open(file, "wb"), which creates it or truncates it
Get(t) ==
    /\ tasks[t].pc = "get"
    /\ \/ Except(t, 0)
       \/ \E length \in {0, BodyLen(tasks[t].url)} :
             IF AlreadyDownloaded(tasks[t].file, length)
             THEN /\ tasks' = [tasks EXCEPT ![t].pc = "returned",
                                            ![t].result = "skipped",
                                            ![t].length = length]
                  /\ outqueue' = Append(outqueue, t)
                  /\ UNCHANGED disk_vars
             ELSE /\ LET ino == IF Exists(tasks[t].file)
                                THEN files[tasks[t].file] ELSE t
                     IN /\ files' = Put(files, tasks[t].file, ino)
                        /\ inodes' = Put(inodes, ino, <<>>)
                        /\ tasks' = [tasks EXCEPT ![t].pc = "write",
                                                  ![t].length = length,
                                                  ![t].ino = ino]
                  /\ UNCHANGED outqueue
    /\ UNCHANGED << input_vars, walk_vars, pc, exc, semaphore, pool_state,
                    taskqueue, video_vars, meter_vars >>

\* one turn of the loop over r.iter_content: the read raises; or the chunk
\* is written and _notify_downloaded_bytes reads the counter; or the body
\* has ended, the file is closed and _do_download returns.  The local
\* `length` is not read after the size test and is cleared
Chunk(t) ==
    /\ tasks[t].pc = "write"
    /\ \/ Except(t, tasks[t].reads + 1)
       \/ /\ IF tasks[t].off < BodyLen(tasks[t].url)
             THEN /\ inodes' = [inodes EXCEPT ![tasks[t].ino] =
                                   WriteAt(@, tasks[t].off + 1,
                                           <<tasks[t].url, tasks[t].off + 1>>)]
                  /\ tasks' = [tasks EXCEPT ![t].pc = "notify",
                                            ![t].off = @ + 1,
                                            ![t].reads = @ + 1,
                                            ![t].tmp = downloaded_bytes,
                                            ![t].length = 0]
                  /\ UNCHANGED outqueue
             ELSE /\ tasks' = [tasks EXCEPT ![t].pc = "returned",
                                            ![t].result = "completed",
                                            ![t].reads = @ + 1,
                                            ![t].length = 0]
                  /\ inodes' = Kept(inodes, files, tasks')
                  /\ outqueue' = Append(outqueue, t)
          /\ UNCHANGED files
    /\ UNCHANGED << input_vars, walk_vars, pc, exc, semaphore, pool_state,
                    taskqueue, video_vars, meter_vars >>

\* _notify_downloaded_bytes: the counter is stored; when more than a second
\* has passed since the last update the status bar shows it and it is reset.
\* The read of the counter (in Chunk) and this store are separate steps: no
\* lock is held across `self._downloaded_bytes += bytes_downloaded`
Notify(t) ==
    /\ tasks[t].pc = "notify"
    /\ \E tick \in BOOLEAN :
          /\ downloaded_bytes' = IF tick THEN 0 ELSE tasks[t].tmp + 1
          /\ shown' = IF tick THEN shown + tasks[t].tmp + 1 ELSE shown
    /\ tasks' = [tasks EXCEPT ![t].pc = "write", ![t].tmp = 0]
    /\ UNCHANGED << input_vars, walk_vars, pc, exc, semaphore, pool_state,
                    taskqueue, outqueue, disk_vars, video_vars >>

\* the result-handler thread takes the oldest result: the callback
\* _on_complete releases the semaphore for a unit that returned; a unit
\* that raised has no error_callback; after terminate results are dropped
HandleResult ==
    /\ outqueue # <<>>
    /\ outqueue' = Tail(outqueue)
    /\ LET t == Head(outqueue) IN
       IF pool_state = "TERMINATE"
       THEN /\ tasks' = [tasks EXCEPT ![t].pc = "dropped"]
            /\ UNCHANGED semaphore
       ELSE IF tasks[t].pc = "returned"
            THEN /\ tasks' = [tasks EXCEPT ![t].pc = "done"]
                 /\ semaphore' = semaphore + 1
            ELSE /\ tasks' = [tasks EXCEPT ![t].pc = "error"]
                 /\ UNCHANGED semaphore
    /\ UNCHANGED << input_vars, walk_vars, pc, exc, pool_state, taskqueue,
                    disk_vars, video_vars, meter_vars >>

(* ------------------------------ the run -------------------------------- *)

Next ==
    \/ Main
    \/ Scrape
    \/ UnknownModule
    \/ DownloadResources
    \/ ResourceContent
    \/ Submit
    \/ SaveKalturaVideoUrl
    \/ VideoFetch
    \/ VideoOpen
    \/ VideoDump
    \/ Interrupt
    \/ PoolClose
    \/ PoolTerminate
    \/ PoolJoin
    \/ StartTask
    \/ HandleResult
    \/ \E t \in DOMAIN tasks : Get(t)
    \/ \E t \in DOMAIN tasks : Chunk(t)
    \/ \E t \in DOMAIN tasks : Notify(t)

Spec == Init /\ [][Next]_vars

(* ----------------------- PathEscaper on its own ------------------------ *)

\* the characters the names are made of: the separator, a reserved
\* character, the letters of the reserved basename CON in both cases, and
\* the prefix character
Alphabet == {"/", ":", "C", "O", "N", "c", "o", "n", "_"}

RECURSIVE Names(_)
Names(len) ==
    IF len = 0 THEN {<<>>}
    ELSE Names(len - 1)
         \cup {Append(n, c) : n \in Names(len - 1), c \in Alphabet}

\* the second segments the two-segment paths are made with
Seconds == { <<>>, <<"/">>, <<"C", "O", "N">> }

\* the paths escape_path is tried on
Paths ==
    {<<>>}
    \cup { <<n>> : n \in Names(MaxName) }
    \cup { <<n, m>> : n \in Names(MaxName), m \in Seconds }

\* no run of the scraper: only the escaper's input is chosen
EscInit ==
    /\ platform \in {"linux", "win32"}
    /\ esc_in \in Paths
    /\ esc_out = <<>>
    /\ credentials = "given"
    /\ transfers = 1
    /\ courses = <<>>
    /\ calls = <<>>
    /\ ip = 1
    /\ ci = 1
    /\ pc = "escape"
    /\ exc = "none"
    /\ semaphore = transfers
    /\ pool_state = "RUN"
    /\ taskqueue = <<>>
    /\ outqueue = <<>>
    /\ tasks = <<>>
    /\ files = EmptyMap
    /\ inodes = EmptyMap
    /\ videos_json = [state |-> "absent", entries |-> EmptyMap]
    /\ videos = EmptyMap
    /\ before = EmptyMap
    /\ fetches = <<>>
    /\ downloaded_bytes = 0
    /\ shown = 0

\* escape_path applied to the path, or to the result of the last call
EscapePath ==
    /\ pc = "escape"
    /\ Len(esc_out) < MaxApply
    /\ esc_out' = Append(esc_out,
                         escape_path(IF esc_out = <<>> THEN esc_in
                                     ELSE esc_out[Len(esc_out)], platform))
    /\ UNCHANGED << platform, credentials, esc_in, transfers, courses,
                    walk_vars, pc, exc, pool_vars, disk_vars, video_vars,
                    meter_vars >>

EscNext == EscapePath

EscSpec == EscInit /\ [][EscNext]_vars

(* ---------------------------- properties ------------------------------- *)

Count(log, x) == Cardinality({i \in DOMAIN log : log[i] = x})
IsVideoCall == pc = "walk" /\ ip <= Len(calls) /\ Cur.data.modname = "kalvidres"

\* C1: the units submitted and not yet completed never number more than
\* the capacity N the pool was built with
C1_InFlightAtMostN == Cardinality(InFlight) <= transfers

\* C1 witness: N = 2 units are in flight while the control thread is held
\* in submit with a third
C1_Witness ==
    /\ transfers = 2
    /\ Cardinality(InFlight) = 2
    /\ pc = "submit"
    /\ semaphore = 0

\* C2: in a run that is not aborted, whenever no unit is in flight every
\* permit is free: each permit acquired by submit was released when its
\* unit completed, returned or raised
C2_PermitsReleased ==
    (exc = "none" /\ InFlight = {} /\ outqueue = <<>>)
        => semaphore = transfers

\* C3: a unit that raises does not halt the pool: once every unit started
\* has returned or raised and its result is handled, submit is not left
\* waiting for a permit
C3_SubmitNotStuck ==
    ~ ( /\ pc = "submit"
        /\ semaphore = 0
        /\ InFlight = {}
        /\ outqueue = <<>> )

\* C4: when _do_download ends with an error, no file is at its destination
\* as the error propagates
C4_NoFileAfterFailure ==
    [][ \A t \in DOMAIN tasks :
           (tasks[t].result # "failed" /\ tasks'[t].result = "failed")
              => tasks[t].file \notin DOMAIN files' ]_vars

\* C4 witness: a download failed at its second chunk, after it had written
\* the first
C4_Witness ==
    \E t \in DOMAIN tasks :
        /\ tasks[t].result = "failed"
        /\ tasks[t].off = 1
        /\ tasks[t].reads = 2

\* C5: a destination that exists with the declared length is skipped: no
\* body read, no write to the directory or the file, nothing reported to
\* the throughput counter, and the unit returns
C5_SkipExisting ==
    [][ \A t \in DOMAIN tasks :
           ( /\ tasks[t].pc = "get"
             /\ tasks'[t].pc \in {"write", "returned"}
             /\ Exists(tasks[t].file)
             /\ SizeOf(tasks[t].file) = tasks'[t].length )
           => ( /\ tasks'[t].pc = "returned"
                /\ tasks'[t].result = "skipped"
                /\ tasks'[t].reads = 0
                /\ files' = files
                /\ inodes' = inodes
                /\ downloaded_bytes' = downloaded_bytes ) ]_vars

\* C5 witness: a unit was skipped over a non-empty file that was there
\* before the run
C5_Witness ==
    \E t \in DOMAIN tasks :
        /\ tasks[t].result = "skipped"
        /\ tasks[t].length = 1
        /\ Exists(tasks[t].file)
        /\ files[tasks[t].file] = 0
        /\ inodes[0] = << <<"old", 1>> >>

\* C6: the failure of a single task never aborts the run: no exception
\* other than the operator's interrupt propagates in the control thread
C6_TaskFailureIsLocal == exc \in {"none", "KeyboardInterrupt"}

\* C7: the children of a node with id -1 or an empty name are walked with
\* the path the node itself received, those of any other node with that
\* path extended by the node's name
C7_TransparentKeepsPath ==
    \A i \in DOMAIN calls :
        calls[i].via.nested
        => calls[i].path =
              IF calls[i].via.id = -1 \/ calls[i].via.name = <<>>
              THEN calls[i].via.path
              ELSE calls[i].via.path \o <<calls[i].via.name>>

\* C8: at every instant of a VideoURLMap update the file holds every entry
\* it held before the update began
C8_PriorEntriesKept ==
    \A k \in DOMAIN before :
        /\ k \in DOMAIN videos_json.entries
        /\ videos_json.entries[k] = before[k]

\* C9: the VideoURLMap only grows: no step removes a key or changes the URL
\* under a key
C9_AppendOnly ==
    [][ \A k \in DOMAIN videos :
           k \in DOMAIN videos' /\ videos'[k] = videos[k] ]_vars

\* C9 witness: an entry was added to a map that already held another
C9_Witness ==
    /\ Cardinality(DOMAIN videos) >= 2
    /\ fetches # <<>>
    /\ OtherVideo \in DOMAIN videos

\* C10: a destination with a recorded entry is never resolved again: no
\* page is fetched for it, and the call for it leaves the map and its file
\* as they are
C10_ResolveOnce ==
    [][ /\ \A k \in DOMAIN videos : Count(fetches', k) = Count(fetches, k)
        /\ ( /\ IsVideoCall
             /\ CurVideoFile \in DOMAIN videos
             /\ (pc' # pc \/ ip' # ip)
             /\ pc' # "exc" )
           => ( /\ pc' = "walk"
                /\ ip' = ip + 1
                /\ fetches' = fetches
                /\ videos' = videos
                /\ videos_json' = videos_json ) ]_vars

\* C10 witness: the second call for a destination resolved earlier in the
\* run has returned
C10_Witness ==
    /\ ip > 1
    /\ ip <= Len(calls)
    /\ \E i \in 1..(ip - 1) :
          /\ calls[i].data.modname = "kalvidres"
          /\ VideoFileOf(calls[i].path, calls[i].data, platform)
                \in DOMAIN videos
          /\ Count(fetches,
                   VideoFileOf(calls[i].path, calls[i].data, platform)) = 1
          /\ \E j \in 1..(i - 1) :
                /\ calls[j].data.modname = "kalvidres"
                /\ VideoFileOf(calls[j].path, calls[j].data, platform)
                      = VideoFileOf(calls[i].path, calls[i].data, platform)

\* the chunk sizes passed to the calls of _notify_downloaded_bytes that have
\* returned, over the units 1..n
RECURSIVE Notified(_)
Notified(n) ==
    IF n = 0 THEN 0
    ELSE Notified(n - 1) + tasks[n].off
         - (IF tasks[n].pc = "notify" THEN 1 ELSE 0)

\* C11: no update of the throughput counter is lost: the bytes shown at the
\* report ticks plus the bytes in the accumulator are the bytes notified
C11_NoLostUpdate == shown + downloaded_bytes = Notified(Len(tasks))

\* the body the server streams for a file URL
Body(url) == [i \in 1..BodyLen(url) |-> <<url, i>>]

\* C12: when two nodes have the same destination and both downloads
\* complete, after the run the file holds the content of the later node of
\* the walk
C12_LaterOverwrites ==
    pc = "done" =>
        \A t1, t2 \in DOMAIN tasks :
            ( /\ t1 < t2
              /\ tasks[t1].file = tasks[t2].file
              /\ tasks[t1].result = "completed"
              /\ tasks[t2].result = "completed"
              /\ \A t3 \in DOMAIN tasks :
                    t3 > t2 => tasks[t3].file # tasks[t2].file )
            => ( /\ Exists(tasks[t2].file)
                 /\ inodes[files[tasks[t2].file]] = Body(tasks[t2].url) )

\* a unit has finished executing: _do_download returned or raised
Finished(t) == tasks[t].pc \in {"returned", "raised", "done", "error"}

\* a unit has not started: it waits in the queue or was dropped from it
Unstarted(t) == tasks[t].pc \in {"queued", "abandoned"}

\* C13: when the pool scope is left with no exception, every unit submitted
\* in the scope has finished executing: none is dropped, waiting or running
C13_NormalExitWaits ==
    pc = "done" => \A t \in DOMAIN tasks : Finished(t)

\* C13 witness: the scope was left normally after three submissions with
\* two workers, one unit having failed
C13_Witness ==
    /\ pc = "done"
    /\ transfers = 2
    /\ Len(tasks) = 3
    /\ \E t \in DOMAIN tasks : tasks[t].result = "failed"
    /\ \E t \in DOMAIN tasks : tasks[t].result = "completed"

\* C14: once the pool scope is being left with an exception, no unit that
\* has not started is started, and the scope is left only when no unit is
\* running
C14_AbortAbandonsQueued ==
    [][ (pc \in {"join", "failed"} /\ exc # "none") =>
            /\ \A t \in DOMAIN tasks : Unstarted(t) => Unstarted(t)'
            /\ pc' = "failed" => Running' = {} ]_vars

\* C14 witness: the scope was left on an interrupt with a unit abandoned
\* in the queue, after a unit that was running had returned
C14_Witness ==
    /\ pc = "failed"
    /\ exc = "KeyboardInterrupt"
    /\ \E t \in DOMAIN tasks : tasks[t].pc = "abandoned"
    /\ \E t \in DOMAIN tasks : tasks[t].pc = "dropped"

\* the number of entries of kind "file" among the contents of a module
FileCount(module) ==
    Cardinality({i \in DOMAIN module.contents :
                    module.contents[i].type = "file"})

\* C15: the file of a resource module is nested under the name of the
\* module exactly when the module yields more than one entry of kind "file"
C15_NestedIffManyFiles ==
    pc = "submit" =>
        CurFile = FileOf(IF FileCount(Cur.data) > 1
                         THEN Cur.path \o <<Cur.data.name>>
                         ELSE Cur.path,
                         CurContent.filename, platform)

\* C16: every fetch of a video module page is a step of a running unit of
\* the pool, and never a step of the control thread
C16_FetchInPool ==
    [][ fetches' # fetches =>
            /\ pc' = pc
            /\ \E t \in Running : tasks'[t] # tasks[t] ]_vars

\* str.upper, on the letters of the alphabet
Upper(name) ==
    [i \in 1..Len(name) |->
        CASE name[i] = "c" -> "C"
          [] name[i] = "o" -> "O"
          [] name[i] = "n" -> "N"
          [] OTHER -> name[i]]

\* the characters a name holds
Chars(name) == {name[i] : i \in 1..Len(name)}

\* the reserved characters: the keys of the charmap
ReservedChars ==
    {WIN_FORBIDDEN_FILENAME_CHARMAP[i][1]
        : i \in 1..Len(WIN_FORBIDDEN_FILENAME_CHARMAP)}

\* C17: escape_path_name never gives out the separator "/", and on win32
\* its result holds no reserved character and is not a reserved basename,
\* the case of its letters set aside
C17_NothingReserved ==
    esc_out # <<>> =>
        \A i \in 1..Len(esc_out[1]) :
            /\ "/" \notin Chars(esc_out[1][i])
            /\ platform = "win32" =>
                  /\ Chars(esc_out[1][i]) \cap ReservedChars = {}
                  /\ Upper(esc_out[1][i]) \notin WIN_FORBIDDEN_FILENAMES

\* C18: escape_path applied to its own result gives that result again
C18_Idempotent ==
    \A k \in 2..Len(esc_out) : esc_out[k] = esc_out[k - 1]

\* C18 witness: a path with a separator and a reserved character in its
\* first name and a reserved basename as its second was escaped twice on
\* win32, the first call having changed both names
C18_Witness ==
    /\ platform = "win32"
    /\ Len(esc_out) >= 2
    /\ esc_in = << <<"/", ":", "c">>, <<"C", "O", "N">> >>
    /\ esc_out[1] = << <<"U+2044", "U+2236", "c">>, <<"_", "C", "O", "N">> >>

\* the exit status of the process: 0 when main has returned, 1 when an
\* exception has left main, -1 while main runs
ExitStatus ==
    CASE pc \in {"returned", "done"} -> 0
      [] pc = "failed" -> 1
      [] OTHER -> -1

\* main has gone past the credentials test, to browser.login
LoginStarted == pc \notin {"main", "returned"}

\* C19: with no credentials main ends with a non-zero exit status, with no
\* login and no transfer started; a run that completes ends with status 0,
\* also when units of it failed
C19_ExitOutcome ==
    /\ credentials = "missing" =>
          /\ ExitStatus # 0
          /\ ~LoginStarted
          /\ tasks = <<>>
    /\ pc = "done" => ExitStatus = 0

\* C20: an attempt that fails before it opens its destination (the GET
\* raises) leaves a file that was at the destination in place, unchanged
C20_FailedGetKeepsFile ==
    [][ \A t \in DOMAIN tasks :
            ( /\ tasks[t].pc = "get"
              /\ tasks'[t].pc = "raised"
              /\ Exists(tasks[t].file) )
            => ( /\ tasks[t].file \in DOMAIN files'
                 /\ files'[tasks[t].file] = files[tasks[t].file]
                 /\ files[tasks[t].file] \in DOMAIN inodes'
                 /\ inodes'[files[tasks[t].file]]
                       = inodes[files[tasks[t].file]] ) ]_vars

\* C21: a resolution that finds no entry id ends with no exception and
\* leaves self.videos and the file videos.json as they were; when a call
\* that records an entry returns, the file holds the in-memory map
C21_NoEntryNoChange ==
    [][ /\ (pc = "video_fetch" /\ pc' = "walk") =>
              /\ exc' = "none"
              /\ videos' = videos
              /\ videos_json' = videos_json
        /\ (pc = "video_dump" /\ pc' = "walk") =>
              /\ videos_json'.state = "complete"
              /\ videos_json'.entries = videos' ]_vars

\* C21 witness: the first video page carried no entry id and left the
\* one-entry videos.json alone; the second fetch for the same destination
\* recorded an entry, and the file now holds both entries of the map
C21_Witness ==
    /\ pc = "walk"
    /\ exc = "none"
    /\ Len(fetches) = 2
    /\ fetches[1] = fetches[2]
    /\ DOMAIN videos = {OtherVideo, fetches[2]}
    /\ videos_json = [state |-> "complete", entries |-> videos]

====
